---- MODULE Spec2Model ----
(***************************************************************************)
(* planex: the pin-content resolver (planex/cmd/pin.py) and the Debian     *)
(* rule translator (planex/debianrules.py).                                *)
(*                                                                         *)
(* Python strings the code inspects character by character (resource       *)
(* names, override arguments, paths, recipe texts) are tuples of           *)
(* one-character strings.  Python's None is the tuple <<"None">>, which no *)
(* tuple of single characters equals.                                      *)
(***************************************************************************)
EXTENDS Integers, Sequences, FiniteSets, TLC

VARIABLES
    args,        \* argparse namespace: package, source, patchqueue, write, output
    specfile,    \* whether SPECS/<package>.spec is a file
    resources,   \* spec.resources_dict().items(): (name, source) in declared order
    dirs,        \* the directories that exist, as paths relative to os.getcwd()
    files,       \* the files main has written: path -> content
    pin,         \* main's local `pin`
    stdout,      \* the texts print() has written, in order
    status,      \* the process's end: exit code and message on the error stream
    pc,          \* main's position
    rspec,       \* the rpm spec handed to rules_from_spec: build, install, clean, test
    excludes,    \* files_from_spec(...)[pkgname + "-%exclude"], or None without that key
    tree,        \* rules_from_spec's local `res`: path -> contents, permissions
    appends,     \* the paths tree.append was called with, in call order
    rpc          \* rules_from_spec's position

vars == <<args, specfile, resources, dirs, files, pin, stdout, status, pc,
          rspec, excludes, tree, appends, rpc>>

pinVars == <<args, specfile, resources, dirs, files, pin, stdout, status, pc>>
rulesVars == <<rspec, excludes, tree, appends, rpc>>

----------------------------------------------------------------------------
(* Python values and string operations *)

None == <<"None">>

\* `sub in s` on strings
Contains(s, sub) ==
    \E i \in 1..(Len(s) - Len(sub) + 1) : SubSeq(s, i, i + Len(sub) - 1) = sub

\* s.startswith(p)
StartsWith(s, p) == Len(s) >= Len(p) /\ SubSeq(s, 1, Len(p)) = p

\* s.split(c) for a one-character separator
RECURSIVE Split(_, _)
Split(s, c) ==
    IF \A i \in 1..Len(s) : s[i] # c
    THEN <<s>>
    ELSE LET i == CHOOSE k \in 1..Len(s) :
                      s[k] = c /\ \A j \in 1..(k - 1) : s[j] # c
         IN  <<SubSeq(s, 1, i - 1)>> \o Split(SubSeq(s, i + 1, Len(s)), c)

\* d[k] = v on a dict
DictSet(d, k, v) == [x \in DOMAIN d \cup {k} |-> IF x = k THEN v ELSE d[x]]

EmptyDict == [x \in {} |-> None]

----------------------------------------------------------------------------
(* planex/cmd/pin.py *)

SchemaVersionKey == <<"S","c","h","e","m","a","V","e","r","s","i","o","n">>
Source0Key == <<"S","o","u","r","c","e","0">>
PatchQueue0Key == <<"P","a","t","c","h","Q","u","e","u","e","0">>
Archive0Key == <<"A","r","c","h","i","v","e","0">>
PatchMarker == <<"P","a","t","c","h">>
PatchQueueMarker == <<"P","a","t","c","h","Q","u","e","u","e">>
SshPrefix == <<"s","s","h",":","/","/">>
Hash == "#"

\* isinstance(source, (GitBlob, GitArchive, GitPatchqueue))
IsGitBacked(source) == source.kind \in {"Blob", "Archive", "Patchqueue"}

\* isinstance(source, Archive)
IsArchive(source) == source.kind = "Archive"

\* What a call gives back: a value, or an exception
Return(v) == [raised |-> None, value |-> v]
Raise(e) == [raised |-> e, value |-> None]

repo_or_path_unguarded(arg) ==
    LET split == Split(arg, Hash)
    IN  IF Len(split) > 2 \/ split = <<>>
        THEN Raise(<<"ValueError">>)
        ELSE IF Len(split) = 1
             THEN Return(<<arg, None>>)
             ELSE Return(split)

repo_or_path(arg) ==
    IF StartsWith(arg, SshPrefix)
    THEN LET split == Split(arg, Hash)
         IN  IF Len(split) > 2 \/ split = <<>>
             THEN Raise(<<"ValueError">>)
             ELSE IF Len(split) = 1
                  THEN Return(<<arg, None>>)
                  ELSE Return(split)
    ELSE Return(<<arg, None>>)

\* {"URL": url}, with "commitish" when repo_or_path gave one
override_entry_misspelt(parsed) ==
    IF parsed[2] # None
    THEN DictSet([URL |-> parsed[1]], "commititsh", parsed[2])
    ELSE [URL |-> parsed[1]]

override_entry(parsed) ==
    IF parsed[2] # None
    THEN DictSet([URL |-> parsed[1]], "commitish", parsed[2])
    ELSE [URL |-> parsed[1]]

\* The two `continue`s of the loop over the resources
skipped_any_patch(a, name) ==
    \/ a.patchqueue # None /\ Contains(name, PatchQueueMarker)
    \/ Contains(name, PatchMarker)

skipped(a, name) ==
    \/ a.patchqueue # None /\ Contains(name, PatchQueueMarker)
    \/ Contains(name, PatchMarker) /\ ~Contains(name, PatchQueueMarker)

\* The entry the loop stores for a resource it keeps
resource_entry(source) ==
    LET e0 == [URL |-> source.url]
        e1 == IF IsGitBacked(source)
              THEN DictSet(e0, "commititsh", source.commitish)
              ELSE e0
    IN  IF IsArchive(source) THEN DictSet(e1, "prefix", source.prefix) ELSE e1

\* for name, source in spec.resources_dict().items(): ...
RECURSIVE enumerate(_, _, _)
enumerate(pinfile, a, items) ==
    IF items = <<>>
    THEN pinfile
    ELSE LET name == items[1].name
             source == items[1]
         IN  IF skipped(a, name)
             THEN enumerate(pinfile, a, Tail(items))
             ELSE enumerate(DictSet(pinfile, name, resource_entry(source)),
                            a, Tail(items))

\* The patch-queue override's tail: PatchQueue0, and Archive0 the same object
patchqueue_override_only(pinfile, parsed) ==
    DictSet(pinfile, PatchQueue0Key, override_entry(parsed))

patchqueue_override_discards(pinfile, parsed) ==
    LET p1 == DictSet(DictSet(EmptyDict, SchemaVersionKey, <<"3">>),
                      PatchQueue0Key, override_entry(parsed))
    IN  DictSet(p1, Archive0Key, p1[PatchQueue0Key])

patchqueue_override(pinfile, parsed) ==
    LET p1 == DictSet(pinfile, PatchQueue0Key, override_entry(parsed))
    IN  DictSet(p1, Archive0Key, p1[PatchQueue0Key])

source_override_keeps_model(a, items, parsed) ==
    DictSet(enumerate(DictSet(EmptyDict, SchemaVersionKey, <<"3">>), a, items),
            Source0Key, override_entry(parsed))

source_override(a, items, parsed) ==
    DictSet(DictSet(EmptyDict, SchemaVersionKey, <<"3">>),
            Source0Key, override_entry(parsed))

get_pin_content(a, items) ==
    LET pinfile0 == DictSet(EmptyDict, SchemaVersionKey, <<"3">>)
    IN  IF a.source # None
        THEN LET r == repo_or_path(a.source)
             IN  IF r.raised # None
                 THEN r
                 ELSE Return(source_override(a, items, r.value))
        ELSE LET pinfile1 == enumerate(pinfile0, a, items)
             IN  IF a.patchqueue # None
                 THEN LET r == repo_or_path(a.patchqueue)
                      IN  IF r.raised # None
                          THEN r
                          ELSE Return(patchqueue_override(pinfile1, r.value))
                 ELSE Return(pinfile1)

\* os.path.dirname (posixpath): the text up to the last "/", with the
\* trailing slashes of that head stripped unless the head is only slashes
RECURSIVE rstrip(_, _)
rstrip(s, c) ==
    IF s # <<>> /\ s[Len(s)] = c THEN rstrip(SubSeq(s, 1, Len(s) - 1), c) ELSE s

dirname(p) ==
    LET slashes == {k \in 1..Len(p) : p[k] = "/"}
        i == IF slashes = {} THEN 0
             ELSE CHOOSE k \in slashes : \A j \in slashes : j <= k
        head == SubSeq(p, 1, i)
    IN  IF head # <<>> /\ \E k \in 1..Len(head) : head[k] # "/"
        THEN rstrip(head, "/")
        ELSE head

\* os.path.exists: os.stat succeeds; it fails on the empty path
exists(path) == path # <<>> /\ (path \in dirs \/ path \in DOMAIN files)

\* json.dumps(pin, indent=2, sort_keys=True): the members of the object in the
\* order of their keys, each entry's members in the order of theirs
Ascii == <<"#", "$", ".", "/", "0", "1", "2", "3", ":",
           "A", "P", "Q", "S", "U", "V", "X", "_",
           "a", "c", "d", "e", "h", "i", "k", "m", "n", "o", "p", "r", "s",
           "t", "u", "v">>
Ord(c) == CHOOSE i \in 1..Len(Ascii) : Ascii[i] = c

RECURSIVE KeyLess(_, _)
KeyLess(x, y) ==
    IF y = <<>> THEN FALSE
    ELSE IF x = <<>> THEN TRUE
    ELSE IF Ord(x[1]) # Ord(y[1]) THEN Ord(x[1]) < Ord(y[1])
    ELSE KeyLess(Tail(x), Tail(y))

RECURSIVE SortKeys(_)
SortKeys(S) ==
    IF S = {} THEN <<>>
    ELSE LET m == CHOOSE k \in S : \A o \in S \ {k} : KeyLess(k, o)
         IN  <<m>> \o SortKeys(S \ {m})

EntryKeys == <<"URL", "commitish", "commititsh", "prefix">>

dump_entry(e) ==
    LET present == SelectSeq(EntryKeys, LAMBDA k : k \in DOMAIN e)
    IN  [i \in 1..Len(present) |-> <<present[i], e[present[i]]>>]

json_dumps(d) ==
    LET keys == SortKeys(DOMAIN d)
    IN  [i \in 1..Len(keys) |->
            <<keys[i],
              IF keys[i] = SchemaVersionKey THEN d[keys[i]]
              ELSE dump_entry(d[keys[i]])>>]

PinsDir == <<"P","I","N","S","/">>
PinSuffix == <<".","p","i","n">>

\* output = args.output; if args.write: output = "PINS/{}.pin".format(package)
destination(a) ==
    IF a.write THEN PinsDir \o a.package \o PinSuffix ELSE a.output

Exit(code, message) == [code |-> code, message |-> message]

\* spec = load_spec_and_lnk(xs_path, package_name)
load_spec_and_lnk ==
    /\ pc = "main"
    /\ IF ~specfile
       THEN /\ pc' = "exited"
            /\ status' = Exit(1, <<"Spec file not present", args.package>>)
       ELSE /\ pc' = "loaded"
            /\ UNCHANGED status
    /\ UNCHANGED <<args, specfile, resources, dirs, files, pin, stdout>>
    /\ UNCHANGED rulesVars

\* pin = get_pin_content(args, spec)
call_get_pin_content ==
    /\ pc = "loaded"
    /\ LET r == get_pin_content(args, resources)
       IN  IF r.raised # None
           THEN /\ pc' = "raised"
                /\ status' = Exit(1, r.raised)
                /\ UNCHANGED pin
           ELSE /\ pc' = "built"
                /\ pin' = r.value
                /\ UNCHANGED status
    /\ UNCHANGED <<args, specfile, resources, dirs, files, stdout>>
    /\ UNCHANGED rulesVars

\* print(json.dumps(pin, indent=2, sort_keys=True))
print_pin ==
    /\ pc = "built"
    /\ stdout' = Append(stdout, json_dumps(pin))
    /\ pc' = "printed"
    /\ UNCHANGED <<args, specfile, resources, dirs, files, pin, status>>
    /\ UNCHANGED rulesVars

\* if output is not None: write the pin file, or sys.exit
write_output(output) ==
    IF exists(dirname(output))
    THEN /\ files' = DictSet(files, output, json_dumps(pin))
         /\ pc' = "done"
         /\ status' = Exit(0, None)
    ELSE /\ pc' = "exited"
         /\ status' = Exit(1, <<"Error: path does not exist", dirname(output)>>)
         /\ UNCHANGED files

write_pin ==
    /\ pc = "printed"
    /\ LET output == destination(args)
       IN  IF output # None
           THEN write_output(output)
           ELSE /\ pc' = "done"
                /\ status' = Exit(0, None)
                /\ UNCHANGED files
    /\ UNCHANGED <<args, specfile, resources, dirs, pin, stdout>>
    /\ UNCHANGED rulesVars

----------------------------------------------------------------------------
(* planex/debianrules.py.  A text is a tuple of its pieces in order: a string  *)
(* literal of the code is one piece, a recipe or a path one piece a character. *)

BuildRoot == <<"$","R","P","M","_","B","U","I","L","D","_","R","O","O","T">>
DestDir == <<"$","{","D","E","S","T","D","I","R","}">>
ExecutablePermissions == 493

\* s.replace(old, new): the occurrences of old from the left, none overlapping
RECURSIVE Replace(_, _, _)
Replace(s, old, new) ==
    IF Len(s) < Len(old) THEN s
    ELSE IF SubSeq(s, 1, Len(old)) = old
         THEN new \o Replace(SubSeq(s, Len(old) + 1, Len(s)), old, new)
         ELSE <<s[1]>> \o Replace(Tail(s), old, new)

Whitespace == {" ", "\t", "\n"}

\* s.strip()
RECURSIVE strip(_)
strip(s) ==
    IF s # <<>> /\ s[1] \in Whitespace THEN strip(Tail(s))
    ELSE IF s # <<>> /\ s[Len(s)] \in Whitespace THEN strip(SubSeq(s, 1, Len(s) - 1))
    ELSE s

\* re.sub("^", "\t", s, flags=re.MULTILINE): a tab at the start of every line
RECURSIVE after_newlines(_)
after_newlines(s) ==
    IF s = <<>> THEN <<>>
    ELSE IF s[1] = "\n" THEN <<"\n", "\t">> \o after_newlines(Tail(s))
    ELSE <<s[1]>> \o after_newlines(Tail(s))

indent(s) == <<"\t">> \o after_newlines(s)

\* rpm.expandMacro(pat): the macros of the pattern replaced by their values
RECURSIVE expandMacro(_)
expandMacro(pat) ==
    IF pat = <<>> THEN <<>>
    ELSE IF pat[1] = "%{_bindir}" THEN <<"/", "b">> \o expandMacro(Tail(pat))
    ELSE <<pat[1]>> \o expandMacro(Tail(pat))

\* os.path.normpath (posixpath) of a path that does not start with "/"
RECURSIVE new_comps(_, _)
new_comps(comps, acc) ==
    IF comps = <<>> THEN acc
    ELSE LET comp == comps[1]
         IN  IF comp = <<>> \/ comp = <<".">>
             THEN new_comps(Tail(comps), acc)
             ELSE IF \/ comp # <<".", ".">>
                     \/ acc = <<>>
                     \/ acc[Len(acc)] = <<".", ".">>
                  THEN new_comps(Tail(comps), Append(acc, comp))
                  ELSE new_comps(Tail(comps), SubSeq(acc, 1, Len(acc) - 1))

RECURSIVE join(_)
join(comps) ==
    IF comps = <<>> THEN <<>>
    ELSE IF Len(comps) = 1 THEN comps[1]
    ELSE comps[1] \o <<"/">> \o join(Tail(comps))

normpath(path) ==
    IF path = <<>> THEN <<".">>
    ELSE LET joined == join(new_comps(Split(path, "/"), <<>>))
         IN  IF joined = <<>> THEN <<".">> ELSE joined

\* planex.tree.Tree.append: the contents are added to what the path holds, the
\* permissions are recorded when given
TreeAppend(t, path, contents, permissions) ==
    LET node == IF path \in DOMAIN t THEN t[path]
                ELSE [contents |-> <<>>, permissions |-> {}]
    IN  DictSet(t, path,
                [contents |-> node.contents \o contents,
                 permissions |-> IF permissions = {} THEN node.permissions
                                 ELSE permissions])

ocaml_rules_preamble_rule ==
    << "#!/usr/bin/make -f\n",
       "\n",
       "#include /usr/share/cdbs/1/rules/debhelper.mk\n",
       "#include /usr/share/cdbs/1/class/makefile.mk\n",
       "#include /usr/share/cdbs/1/rules/ocaml.mk\n",
       "\n",
       "export DH_VERBOSE=1\n",
       "export DH_OPTIONS\n",
       "export DESTDIR=$(CURDIR)/debian/tmp\n",
       "%:\n",
       "\tdh $@ --with ocaml --with python2\n",
       "\n" >>

rules_configure_rule ==
    << ".PHONY: override_dh_auto_configure\n",
       "override_dh_auto_configure:\n",
       "\n" >>

rules_build_rule ==
    << ".PHONY: override_dh_auto_build\n",
       "override_dh_auto_build:\n",
       "\tdebian/build.sh\n",
       "\n" >>

rules_build_helper(spec) ==
    <<"#!/bin/sh\n", "unset CFLAGS\n">> \o Replace(spec.build, BuildRoot, DestDir)

rules_install_rule ==
    << ".PHONY: override_dh_auto_install\n",
       "override_dh_auto_install:\n",
       "\tdebian/install.sh\n",
       "\n" >>

rules_install_helper(spec) ==
    <<"#!/bin/sh\n">> \o Replace(spec.install, BuildRoot, DestDir)

DebPackage == <<"p", "k", "g">>

\* for pat in files[pkgname + "-%exclude"]: one normalized rm line each
RECURSIVE exclude_lines(_)
exclude_lines(pats) ==
    IF pats = <<>> THEN <<>>
    ELSE normpath(<<"\trm -f debian">> \o <<"/">> \o DebPackage \o <<"/">>
                     \o expandMacro(pats[1]) \o <<"\n">>)
         \o exclude_lines(Tail(pats))

rules_dh_install_rule(excl) ==
    << ".PHONY: override_dh_install\n",
       "override_dh_install:\n",
       "\tdh_install\n" >>
    \o (IF excl # None THEN exclude_lines(excl) ELSE <<>>)
    \o <<"\n">>

rules_clean_rule(spec) ==
    << ".PHONY: override_dh_auto_clean\n",
       "override_dh_auto_clean:\n",
       "\tdebian/clean.sh\n" >>
    \o indent(strip(spec.clean))
    \o <<"\n\n">>

rules_clean_helper_unrewritten(spec) == <<"#!/bin/sh\n">> \o spec.clean

rules_clean_helper(spec) ==
    <<"#!/bin/sh\n">> \o Replace(spec.clean, BuildRoot, DestDir)

rules_test_rule ==
    << ".PHONY: override_dh_auto_test\n",
       "override_dh_auto_test:\n" >>

python_setuptools_cfg_content ==
    << "[install]\n",
       "install-layout=deb\n" >>

\* The calls of rules_from_spec, in its order
CallsInstallLate ==
    << "ocaml_rules_preamble", "rules_configure_from_spec", "rules_build_from_spec",
       "rules_dh_install_from_spec", "rules_install_from_spec",
       "rules_clean_from_spec", "rules_test_from_spec", "python_setuptools_cfg",
       "returned" >>

after_install_late(call) ==
    CallsInstallLate[1 + CHOOSE i \in 1..(Len(CallsInstallLate) - 1) :
                            CallsInstallLate[i] = call]

Calls ==
    << "ocaml_rules_preamble", "rules_configure_from_spec", "rules_build_from_spec",
       "rules_install_from_spec", "rules_dh_install_from_spec",
       "rules_clean_from_spec", "rules_test_from_spec", "python_setuptools_cfg",
       "returned" >>

after(call) == Calls[1 + CHOOSE i \in 1..(Len(Calls) - 1) : Calls[i] = call]

\* tree.append(path, contents): the call, and the log of it
Append1(path, contents, permissions) ==
    /\ tree' = TreeAppend(tree, path, contents, permissions)
    /\ appends' = Append(appends, path)

ocaml_rules_preamble ==
    /\ rpc = "ocaml_rules_preamble"
    /\ Append1("debian/rules", ocaml_rules_preamble_rule, {})
    /\ rpc' = after(rpc)
    /\ UNCHANGED <<rspec, excludes>>
    /\ UNCHANGED pinVars

rules_configure_from_spec ==
    /\ rpc = "rules_configure_from_spec"
    /\ Append1("debian/rules", rules_configure_rule, {})
    /\ rpc' = after(rpc)
    /\ UNCHANGED <<rspec, excludes>>
    /\ UNCHANGED pinVars

rules_build_from_spec ==
    /\ rpc = "rules_build_from_spec"
    /\ IF rspec.build = None \/ rspec.build = <<>>
       THEN UNCHANGED <<tree, appends>>
       ELSE /\ tree' = TreeAppend(
                          TreeAppend(tree, "debian/rules", rules_build_rule, {}),
                          "debian/build.sh", rules_build_helper(rspec),
                          {ExecutablePermissions})
            /\ appends' = appends \o <<"debian/rules", "debian/build.sh">>
    /\ rpc' = after(rpc)
    /\ UNCHANGED <<rspec, excludes>>
    /\ UNCHANGED pinVars

\* spec.install.replace raises AttributeError when spec.install is None
rules_install_from_spec ==
    /\ rpc = "rules_install_from_spec"
    /\ IF rspec.install = None
       THEN /\ rpc' = "raised"
            /\ UNCHANGED <<tree, appends>>
       ELSE /\ tree' = TreeAppend(
                          TreeAppend(tree, "debian/rules", rules_install_rule, {}),
                          "debian/install.sh", rules_install_helper(rspec),
                          {ExecutablePermissions})
            /\ appends' = appends \o <<"debian/rules", "debian/install.sh">>
            /\ rpc' = after(rpc)
    /\ UNCHANGED <<rspec, excludes>>
    /\ UNCHANGED pinVars

rules_dh_install_from_spec ==
    /\ rpc = "rules_dh_install_from_spec"
    /\ Append1("debian/rules", rules_dh_install_rule(excludes), {})
    /\ rpc' = after(rpc)
    /\ UNCHANGED <<rspec, excludes>>
    /\ UNCHANGED pinVars

\* spec.clean.strip raises AttributeError when spec.clean is None
rules_clean_from_spec ==
    /\ rpc = "rules_clean_from_spec"
    /\ IF rspec.clean = None
       THEN /\ rpc' = "raised"
            /\ UNCHANGED <<tree, appends>>
       ELSE /\ tree' = TreeAppend(
                          TreeAppend(tree, "debian/rules", rules_clean_rule(rspec), {}),
                          "debian/clean.sh", rules_clean_helper(rspec),
                          {ExecutablePermissions})
            /\ appends' = appends \o <<"debian/rules", "debian/clean.sh">>
            /\ rpc' = after(rpc)
    /\ UNCHANGED <<rspec, excludes>>
    /\ UNCHANGED pinVars

rules_test_from_spec ==
    /\ rpc = "rules_test_from_spec"
    /\ Append1("debian/rules", rules_test_rule, {})
    /\ rpc' = after(rpc)
    /\ UNCHANGED <<rspec, excludes>>
    /\ UNCHANGED pinVars

python_setuptools_cfg ==
    /\ rpc = "python_setuptools_cfg"
    /\ Append1("setup.cfg", python_setuptools_cfg_content, {})
    /\ rpc' = after(rpc)
    /\ UNCHANGED <<rspec, excludes>>
    /\ UNCHANGED pinVars

----------------------------------------------------------------------------
(* The inputs of planex-pin *)

MaxResources == 2
MaxHashes == 2

Package == <<"p","k","g">>

Kinds == {"Blob", "Archive", "Patchqueue", "Patch", "Other"}

ResourceNames ==
    { Source0Key, PatchQueue0Key, Archive0Key,
      <<"P","a","t","c","h","1">>,
      <<"p","a","t","c","h","2">>,
      <<"X","P","a","t","c","h","Q","u","e","u","e","1">> }

\* A resource as planex.spec builds it: only the git-backed kinds have a
\* commitish, only Archive has a prefix
Resource(name, kind) ==
    [name |-> name,
     kind |-> kind,
     url |-> <<"u", ":">> \o name,
     commitish |-> IF kind \in {"Blob", "Archive", "Patchqueue"}
                   THEN <<"c", ":">> \o name ELSE None,
     prefix |-> IF kind = "Archive" THEN <<"p", ":">> \o name ELSE None]

Resources == {Resource(n, k) : n \in ResourceNames, k \in Kinds}

\* resources_dict() is a dict: no name twice
ResourceModels ==
    {m \in UNION {[1..n -> Resources] : n \in 0..MaxResources} :
        \A i, j \in DOMAIN m : i # j => m[i].name # m[j].name}

Namespace(source, patchqueue, write, output) ==
    [package |-> Package, source |-> source, patchqueue |-> patchqueue,
     write |-> write, output |-> output]

\* The overrides argparse can hand over: the two are mutually exclusive
Overrides(texts) ==
    {<<None, None>>} \cup {<<t, None>> : t \in texts} \cup {<<None, t>> : t \in texts}

PinArgs ==
    { SshPrefix \o <<"h">>,
      SshPrefix \o <<"h", "#", "d">>,
      SshPrefix \o <<"h", "#", "d", "#", "e">>,
      <<"/", "p", "#", "d">> }

\* get_pin_content on every resource model, from main's call of it
InitPin ==
    /\ \E o \in Overrides(PinArgs) : args = Namespace(o[1], o[2], FALSE, None)
    /\ resources \in ResourceModels
    /\ specfile = TRUE
    /\ dirs = {}
    /\ files = EmptyDict
    /\ pin = None
    /\ stdout = <<>>
    /\ status = None
    /\ pc = "loaded"
    /\ rspec = None
    /\ excludes = None
    /\ tree = EmptyDict
    /\ appends = <<>>
    /\ rpc = "idle"

NextPin == call_get_pin_content

SpecPin == InitPin /\ [][NextPin]_vars

\* Override arguments: a head, then up to MaxHashes times "#" and a tail
ArgHeads == { SshPrefix \o <<"h">>, <<"s","s","h",":","h">>, <<"/","p">> }
ArgTails == { <<>>, <<"d">> }

RECURSIVE ArgsWith(_)
ArgsWith(n) ==
    IF n = 0 THEN ArgHeads
    ELSE {a \o <<Hash>> \o t : a \in ArgsWith(n - 1), t \in ArgTails}

OverrideArgs == UNION {ArgsWith(n) : n \in 0..MaxHashes}

MainModels ==
    { <<Resource(Source0Key, "Blob"), Resource(<<"P","a","t","c","h","1">>, "Patch")>>,
      <<Resource(PatchQueue0Key, "Patchqueue"), Resource(Archive0Key, "Archive")>> }

OutPin == <<"o","u","t",".","p","i","n">>
DirOutPin == <<"d","/","o","u","t",".","p","i","n">>
OldContent == <<"old">>

\* (write, output): -w and -o are mutually exclusive
Destinations == {<<FALSE, None>>, <<TRUE, None>>, <<FALSE, OutPin>>, <<FALSE, DirOutPin>>}

Init ==
    /\ \E o \in Overrides(OverrideArgs), d \in Destinations :
          args = Namespace(o[1], o[2], d[1], d[2])
    /\ resources \in MainModels
    /\ specfile \in BOOLEAN
    /\ dirs \in SUBSET {<<"P","I","N","S">>, <<"d">>}
    /\ \/ files = EmptyDict
       \/ /\ destination(args) # None
          /\ dirname(destination(args)) \in dirs \cup {<<>>}
          /\ files = DictSet(EmptyDict, destination(args), OldContent)
    /\ pin = None
    /\ stdout = <<>>
    /\ status = None
    /\ pc = "main"
    /\ rspec = None
    /\ excludes = None
    /\ tree = EmptyDict
    /\ appends = <<>>
    /\ rpc = "idle"

Next ==
    \/ load_spec_and_lnk
    \/ call_get_pin_content
    \/ print_pin
    \/ write_pin

Spec == Init /\ [][Next]_vars

----------------------------------------------------------------------------
(* Claims about get_pin_content, under SpecPin *)

Returned == pc = "built"

HasName(n) == \E i \in DOMAIN resources : resources[i].name = n
Declared(n) == resources[CHOOSE i \in DOMAIN resources : resources[i].name = n]

\* The argument has the form ssh://URL#commitish: it supplies a commit identifier
SuppliesCommit(text) == StartsWith(text, SshPrefix) /\ Contains(text, <<Hash>>)

\* The entry carries the argument: its URL, and its commitish after the "#"
CarriesOverride(e, text) ==
    IF SuppliesCommit(text)
    THEN /\ DOMAIN e = {"URL", "commitish"}
         /\ e["URL"] \o <<Hash>> \o e["commitish"] = text
    ELSE /\ DOMAIN e = {"URL"}
         /\ e["URL"] = text

\* C1: with a source override the descriptor returned holds SchemaVersion = "3"
\* and Source0 and no other key, whatever the model declares; Source0 holds the
\* override's URL, and commitish exactly when the override supplied a commit.
C1_SourceOverrideOnlySource0 ==
    (Returned /\ args.source # None) =>
        /\ DOMAIN pin = {SchemaVersionKey, Source0Key}
        /\ pin[SchemaVersionKey] = <<"3">>
        /\ CarriesOverride(pin[Source0Key], args.source)

C1_Witness ==
    /\ Returned
    /\ args.source = SshPrefix \o <<"h", "#", "d">>
    /\ Len(resources) = 2
    /\ HasName(Source0Key)
    /\ pin[Source0Key] = [URL |-> SshPrefix \o <<"h">>, commitish |-> <<"d">>]

\* C2: with a patch-queue override the descriptor returned has both PatchQueue0
\* and Archive0, equal field for field, whatever the model declared under them.
C2_ArchiveEqualsPatchQueue ==
    (Returned /\ args.patchqueue # None) =>
        /\ PatchQueue0Key \in DOMAIN pin
        /\ Archive0Key \in DOMAIN pin
        /\ DOMAIN pin[Archive0Key] = DOMAIN pin[PatchQueue0Key]
        /\ \A f \in DOMAIN pin[PatchQueue0Key] :
              pin[Archive0Key][f] = pin[PatchQueue0Key][f]

C2_Witness ==
    /\ Returned
    /\ args.patchqueue = SshPrefix \o <<"h", "#", "d">>
    /\ HasName(Archive0Key) /\ Declared(Archive0Key).kind = "Archive"
    /\ HasName(PatchQueue0Key)
    /\ pin[Archive0Key] = [URL |-> SshPrefix \o <<"h">>, commitish |-> <<"d">>]

IndividualPatch(n) == Contains(n, PatchMarker) /\ ~Contains(n, PatchQueueMarker)

\* C3: with no override the resource keys of the descriptor are exactly the
\* model's names that are not individual patches (a name with "Patch" and
\* without "PatchQueue"), whatever the kind of the resource.
C3_KeysAreNonPatchNames ==
    (Returned /\ args.source = None /\ args.patchqueue = None) =>
        /\ DOMAIN pin \ {SchemaVersionKey} =
              {resources[i].name : i \in {j \in DOMAIN resources :
                                            ~IndividualPatch(resources[j].name)}}
        /\ \A i \in DOMAIN resources :
              /\ Contains(resources[i].name, PatchQueueMarker)
                    => resources[i].name \in DOMAIN pin
              /\ (Contains(resources[i].name, PatchMarker)
                     /\ ~Contains(resources[i].name, PatchQueueMarker))
                    => resources[i].name \notin DOMAIN pin

C3_Witness ==
    /\ Returned
    /\ args.source = None /\ args.patchqueue = None
    /\ HasName(<<"X","P","a","t","c","h","Q","u","e","u","e","1">>)
    /\ Declared(<<"X","P","a","t","c","h","Q","u","e","u","e","1">>).kind = "Patch"
    /\ HasName(<<"P","a","t","c","h","1">>)
    /\ Declared(<<"P","a","t","c","h","1">>).kind = "Blob"
    /\ DOMAIN pin = {SchemaVersionKey, <<"X","P","a","t","c","h","Q","u","e","u","e","1">>}

\* The entry of an enumerated resource, as the model declares it
AsDeclared(e, r) ==
    /\ e["URL"] = r.url
    /\ ("commititsh" \in DOMAIN e) <=> (r.kind \in {"Blob", "Archive", "Patchqueue"})
    /\ ("commititsh" \in DOMAIN e) => e["commititsh"] = r.commitish
    /\ ("prefix" \in DOMAIN e) <=> (r.kind = "Archive")
    /\ ("prefix" \in DOMAIN e) => e["prefix"] = r.prefix
    /\ DOMAIN e \subseteq {"URL", "commititsh", "prefix"}

WithoutOverride == get_pin_content([args EXCEPT !.patchqueue = None], resources).value

\* What C4 says of the resources named in `others`
OnlyPatchQueueReplaced(others) ==
    (Returned /\ args.patchqueue # None) =>
        /\ \A i \in DOMAIN resources :
              (Contains(resources[i].name, PatchQueueMarker)
                  /\ resources[i].name # PatchQueue0Key)
                 => resources[i].name \notin DOMAIN pin
        /\ CarriesOverride(pin[PatchQueue0Key], args.patchqueue)
        /\ \A i \in DOMAIN resources :
              LET r == resources[i]
              IN  (r.name \in others /\ ~Contains(r.name, PatchMarker)) =>
                     /\ r.name \in DOMAIN pin
                     /\ AsDeclared(pin[r.name], r)
                     /\ pin[r.name] = WithoutOverride[r.name]

\* C4 as claimed: with a patch-queue override every resource named with
\* "PatchQueue" is left out and PatchQueue0 comes from the override, and every
\* other non-patch resource appears as the model declares it, as without override.
C4_Claimed == OnlyPatchQueueReplaced(ResourceNames)

\* C4 amended: the same of every other non-patch resource except Archive0,
\* whose entry is PatchQueue0's, from the override.
C4_OthersEnumerateExceptArchive0 ==
    /\ OnlyPatchQueueReplaced(ResourceNames \ {Archive0Key})
    /\ (Returned /\ args.patchqueue # None) =>
          CarriesOverride(pin[Archive0Key], args.patchqueue)

C4_Witness ==
    /\ Returned
    /\ args.patchqueue = <<"/", "p", "#", "d">>
    /\ HasName(Source0Key) /\ Declared(Source0Key).kind = "Archive"
    /\ HasName(Archive0Key)
    /\ pin[Source0Key] = [URL |-> <<"u", ":">> \o Source0Key,
                          commititsh |-> <<"c", ":">> \o Source0Key,
                          prefix |-> <<"p", ":">> \o Source0Key]
    /\ pin[Archive0Key] = [URL |-> <<"/", "p", "#", "d">>]

OverrideText(k) ==
    IF args.source # None /\ k = Source0Key THEN args.source
    ELSE IF args.patchqueue # None /\ k \in {PatchQueue0Key, Archive0Key}
         THEN args.patchqueue
         ELSE None

\* C5: every entry of a descriptor returned has a URL; an entry enumerated from
\* the model has "commititsh" exactly when its kind is git-backed and "prefix"
\* exactly when its kind is Archive; an entry from an override has "commitish"
\* exactly when the override supplied a commit; no entry has both spellings.
C5_EntryKeys ==
    Returned =>
        \A k \in DOMAIN pin \ {SchemaVersionKey} :
            /\ "URL" \in DOMAIN pin[k]
            /\ ~({"commitish", "commititsh"} \subseteq DOMAIN pin[k])
            /\ IF OverrideText(k) # None
               THEN /\ ("commitish" \in DOMAIN pin[k]) <=> SuppliesCommit(OverrideText(k))
                    /\ DOMAIN pin[k] \subseteq {"URL", "commitish"}
               ELSE /\ HasName(k)
                    /\ ("commititsh" \in DOMAIN pin[k])
                          <=> (Declared(k).kind \in {"Blob", "Archive", "Patchqueue"})
                    /\ ("prefix" \in DOMAIN pin[k]) <=> (Declared(k).kind = "Archive")
                    /\ DOMAIN pin[k] \subseteq {"URL", "commititsh", "prefix"}

C5_Witness ==
    /\ Returned
    /\ args.patchqueue = SshPrefix \o <<"h", "#", "d">>
    /\ HasName(Source0Key) /\ Declared(Source0Key).kind = "Archive"
    /\ DOMAIN pin[Source0Key] = {"URL", "commititsh", "prefix"}
    /\ DOMAIN pin[PatchQueue0Key] = {"URL", "commitish"}

----------------------------------------------------------------------------
(* Claims about main, under Spec *)

\* No file holds anything main wrote
NoFileWritten == \A f \in DOMAIN files : files[f] = OldContent

\* main has called get_pin_content and it returned
PinBuilt == pc \in {"built", "printed", "done"} \/ (pc = "exited" /\ specfile)

\* The directory the destination lies in exists: the current directory for a
\* bare file name, else the directory its path names
DestinationDirExists ==
    IF Contains(destination(args), <<"/">>)
    THEN dirname(destination(args)) \in dirs
    ELSE TRUE

\* C9: nothing is output before the descriptor is built; with a destination
\* (-w or -o) the serialized descriptor is printed first, and then the pin file
\* is written if the destination's directory exists, and otherwise the run ends
\* with a non-zero exit and a message, no file created or modified.
C9_PrintThenWriteOrFail ==
    /\ (~PinBuilt \/ pc = "built") => (stdout = <<>> /\ NoFileWritten)
    /\ pc = "printed" => (stdout = <<json_dumps(pin)>> /\ NoFileWritten)
    /\ (PinBuilt /\ pc \in {"done", "exited"} /\ destination(args) # None) =>
          /\ stdout = <<json_dumps(pin)>>
          /\ IF DestinationDirExists
             THEN /\ pc = "done"
                  /\ destination(args) \in DOMAIN files
                  /\ files[destination(args)] = json_dumps(pin)
             ELSE /\ pc = "exited"
                  /\ status.code # 0
                  /\ status.message # None
                  /\ NoFileWritten

\* What main does: as C9, with os.path.exists(os.path.dirname(output)) for
\* "the destination's directory exists"
C9_AsCoded ==
    /\ (~PinBuilt \/ pc = "built") => (stdout = <<>> /\ NoFileWritten)
    /\ pc = "printed" => (stdout = <<json_dumps(pin)>> /\ NoFileWritten)
    /\ (PinBuilt /\ pc \in {"done", "exited"} /\ destination(args) # None) =>
          /\ stdout = <<json_dumps(pin)>>
          /\ IF DestinationDirExists /\ Contains(destination(args), <<"/">>)
             THEN /\ pc = "done"
                  /\ destination(args) \in DOMAIN files
                  /\ files[destination(args)] = json_dumps(pin)
             ELSE /\ pc = "exited"
                  /\ status.code # 0
                  /\ status.message # None
                  /\ NoFileWritten

TheOverride == IF args.source # None THEN args.source ELSE args.patchqueue
TheOverrideKey == IF args.source # None THEN Source0Key ELSE PatchQueue0Key
Hashes(text) == Cardinality({i \in 1..Len(text) : text[i] = Hash})
PastTheCall == specfile /\ pc \notin {"main", "loaded"}

Fails ==
    /\ pc = "raised"
    /\ status = Exit(1, <<"ValueError">>)
    /\ stdout = <<>>
    /\ NoFileWritten

SplitAtHash ==
    /\ PinBuilt
    /\ DOMAIN pin[TheOverrideKey] = {"URL", "commitish"}
    /\ pin[TheOverrideKey]["URL"] \o <<Hash>> \o pin[TheOverrideKey]["commitish"]
          = TheOverride
    /\ Hashes(pin[TheOverrideKey]["URL"]) = 0

WholeArgument ==
    /\ PinBuilt
    /\ pin[TheOverrideKey] = [URL |-> TheOverride]

\* C10 as claimed: an override with more than one "#" makes the run fail with a
\* value error, nothing returned, printed or written; one with a single "#"
\* gives the URL before it and the commitish after it; one with none gives the
\* whole argument as URL and no commitish.
C10_Claimed ==
    (PastTheCall /\ TheOverride # None) =>
        /\ Hashes(TheOverride) > 1 => Fails
        /\ Hashes(TheOverride) = 1 => SplitAtHash
        /\ Hashes(TheOverride) = 0 => WholeArgument

\* C10 amended: the same of the arguments that start with ssh://; every other
\* argument gives the whole argument as URL and no commitish, "#" or not.
C10_SshOverrideParsed ==
    (PastTheCall /\ TheOverride # None) =>
        IF StartsWith(TheOverride, SshPrefix)
        THEN /\ Hashes(TheOverride) > 1 => Fails
             /\ Hashes(TheOverride) = 1 => SplitAtHash
             /\ Hashes(TheOverride) = 0 => WholeArgument
        ELSE WholeArgument

C10_Witness ==
    /\ pc = "done"
    /\ args.source = SshPrefix \o <<"h", "#", "d">>
    /\ pin[Source0Key] = [URL |-> SshPrefix \o <<"h">>, commitish |-> <<"d">>]
    /\ args.write /\ destination(args) \in DOMAIN files

----------------------------------------------------------------------------
(* The inputs of rules_from_spec *)

MaxPieces == 3

\* Recipe texts for the phases taken together
Recipes ==
    { None,
      <<>>,
      <<"x", "\n">>,
      <<"\n", "a", " ">> \o BuildRoot \o <<"\n", "b", "\n">> }

\* Recipe texts for the rewrite: up to MaxPieces of these pieces in a row
Pieces ==
    { BuildRoot, DestDir, SubSeq(BuildRoot, 1, Len(BuildRoot) - 1),
      <<"$">>, <<"T">>, <<"\n">> }

RECURSIVE TextsOf(_)
TextsOf(n) ==
    IF n = 0 THEN {<<>>}
    ELSE {t \o q : t \in TextsOf(n - 1), q \in Pieces}

Texts == UNION {TextsOf(n) : n \in 0..MaxPieces}

ExcludeLists ==
    { None,
      <<>>,
      << <<"/", "x">> >>,
      << <<"/", "x">>, <<"%{_bindir}", "/", ".", "/", "y">> >> }

RpmSpec(build, install, clean, test) ==
    [build |-> build, install |-> install, clean |-> clean, test |-> test]

InitRules ==
    /\ \/ \E b \in Recipes, i \in Recipes, c \in Recipes, t \in {None, <<"x", "\n">>} :
             rspec = RpmSpec(b, i, c, t)
       \/ \E r \in Texts : rspec = RpmSpec(r, r, r, None)
    /\ excludes \in ExcludeLists
    /\ tree = EmptyDict
    /\ appends = <<>>
    /\ rpc = "ocaml_rules_preamble"
    /\ args = None
    /\ resources = <<>>
    /\ specfile = FALSE
    /\ dirs = {}
    /\ files = EmptyDict
    /\ pin = None
    /\ stdout = <<>>
    /\ status = None
    /\ pc = "idle"

NextRules ==
    \/ ocaml_rules_preamble
    \/ rules_configure_from_spec
    \/ rules_build_from_spec
    \/ rules_install_from_spec
    \/ rules_dh_install_from_spec
    \/ rules_clean_from_spec
    \/ rules_test_from_spec
    \/ python_setuptools_cfg

SpecRules == InitRules /\ [][NextRules]_vars

----------------------------------------------------------------------------
(* Claims about rules_from_spec, under SpecRules *)

Rules == tree["debian/rules"].contents
BuildEmitted == rspec.build # None /\ rspec.build # <<>>
Appended(path) == Cardinality({i \in DOMAIN appends : appends[i] = path})

\* C6: rules_from_spec leaves the Build phase out (no override_dh_auto_build
\* stanza, no debian/build.sh) when the build recipe is empty or absent, and for
\* every combination of present, absent and empty recipes it completes and emits
\* the Configure, Install, Dh-Install, Clean, Test and Setup-Config outputs.
C6_BuildOmittedOthersEmitted ==
    /\ rpc # "raised"
    /\ rpc = "returned" =>
          /\ ~BuildEmitted =>
                /\ ~Contains(Rules, <<".PHONY: override_dh_auto_build\n">>)
                /\ "debian/build.sh" \notin DOMAIN tree
          /\ Contains(Rules, <<".PHONY: override_dh_auto_configure\n">>)
          /\ Contains(Rules, <<".PHONY: override_dh_auto_install\n">>)
          /\ "debian/install.sh" \in DOMAIN tree
          /\ Contains(Rules, <<".PHONY: override_dh_install\n">>)
          /\ Contains(Rules, <<".PHONY: override_dh_auto_clean\n">>)
          /\ "debian/clean.sh" \in DOMAIN tree
          /\ Contains(Rules, <<".PHONY: override_dh_auto_test\n">>)
          /\ "setup.cfg" \in DOMAIN tree

\* What rules_from_spec does: as C6 when it returns, and it raises exactly when
\* the install recipe is absent, or the clean recipe is
C6_AsCoded ==
    /\ rpc = "raised" => (rspec.install = None \/ rspec.clean = None)
    /\ (rpc = "returned" => (rspec.install # None /\ rspec.clean # None))
    /\ rpc = "returned" =>
          /\ ~BuildEmitted =>
                /\ ~Contains(Rules, <<".PHONY: override_dh_auto_build\n">>)
                /\ "debian/build.sh" \notin DOMAIN tree
          /\ Contains(Rules, <<".PHONY: override_dh_auto_configure\n">>)
          /\ Contains(Rules, <<".PHONY: override_dh_auto_install\n">>)
          /\ "debian/install.sh" \in DOMAIN tree
          /\ Contains(Rules, <<".PHONY: override_dh_install\n">>)
          /\ Contains(Rules, <<".PHONY: override_dh_auto_clean\n">>)
          /\ "debian/clean.sh" \in DOMAIN tree
          /\ Contains(Rules, <<".PHONY: override_dh_auto_test\n">>)
          /\ "setup.cfg" \in DOMAIN tree

\* debian/rules is the fragments in order with nothing between them, and
\* setup.cfg holds the setup-config fragment, appended last and once
FragmentsInOrder ==
    /\ Rules = ocaml_rules_preamble_rule
               \o rules_configure_rule
               \o (IF BuildEmitted THEN rules_build_rule ELSE <<>>)
               \o rules_install_rule
               \o rules_dh_install_rule(excludes)
               \o rules_clean_rule(rspec)
               \o rules_test_rule
    /\ tree["setup.cfg"].contents = python_setuptools_cfg_content
    /\ appends[Len(appends)] = "setup.cfg"
    /\ Appended("setup.cfg") = 1

\* C7 as claimed: after rules_from_spec debian/rules is the fragments preamble,
\* configure, build (when emitted), install, dh-install, clean, test in that
\* order, the setup-config fragment goes last and only to setup.cfg, and each of
\* debian/build.sh, debian/install.sh, debian/clean.sh gets exactly one append.
C7_Claimed ==
    rpc = "returned" =>
        /\ FragmentsInOrder
        /\ \A h \in {"debian/build.sh", "debian/install.sh", "debian/clean.sh"} :
              Appended(h) = 1

\* C7 amended: the same, with debian/build.sh getting exactly one append when
\* the Build phase is emitted and none when it is not.
C7_FragmentsInOrderHelpersOnce ==
    rpc = "returned" =>
        /\ FragmentsInOrder
        /\ Appended("debian/build.sh") = IF BuildEmitted THEN 1 ELSE 0
        /\ Appended("debian/install.sh") = 1
        /\ Appended("debian/clean.sh") = 1

C7_Witness ==
    /\ rpc = "returned"
    /\ BuildEmitted
    /\ excludes # None /\ Len(excludes) = 2
    /\ Contains(rspec.clean, BuildRoot)
    /\ appends = << "debian/rules", "debian/rules", "debian/rules", "debian/build.sh",
                    "debian/rules", "debian/install.sh", "debian/rules",
                    "debian/rules", "debian/clean.sh", "debian/rules", "setup.cfg" >>

\* Where "$RPM_BUILD_ROOT" stands in a text
Occurrences(s) ==
    {i \in 1..(Len(s) - Len(BuildRoot) + 1) :
        SubSeq(s, i, i + Len(BuildRoot) - 1) = BuildRoot}

\* out is s with "${DESTDIR}" at every occurrence of "$RPM_BUILD_ROOT" and
\* every other character of s, in order, around them
Rewritten(out, s) ==
    LET shrink == Len(BuildRoot) - Len(DestDir)
        before(i) == Cardinality({j \in Occurrences(s) : j < i})
        inside(i) == \E j \in Occurrences(s) : j <= i /\ i < j + Len(BuildRoot)
    IN  /\ Len(out) = Len(s) - shrink * Cardinality(Occurrences(s))
        /\ \A j \in Occurrences(s) :
              SubSeq(out, j - shrink * before(j),
                          j - shrink * before(j) + Len(DestDir) - 1) = DestDir
        /\ \A i \in 1..Len(s) :
              ~inside(i) => out[i - shrink * before(i)] = s[i]

HelperHead(path) ==
    IF path = "debian/build.sh" THEN <<"#!/bin/sh\n", "unset CFLAGS\n">>
    ELSE <<"#!/bin/sh\n">>

HelperRecipe(path) ==
    IF path = "debian/build.sh" THEN rspec.build
    ELSE IF path = "debian/install.sh" THEN rspec.install
    ELSE rspec.clean

\* C8: the helper script of Build, Install and Clean alike is "#!/bin/sh" (and,
\* for Build only, "unset CFLAGS"), then the recipe with every "$RPM_BUILD_ROOT"
\* replaced by "${DESTDIR}" and every other character unchanged and in order,
\* appended with permission 0o755.
C8_HelperScripts ==
    /\ \A path \in DOMAIN tree \cap
                   {"debian/build.sh", "debian/install.sh", "debian/clean.sh"} :
          LET head == HelperHead(path)
              text == tree[path].contents
          IN  /\ SubSeq(text, 1, Len(head)) = head
              /\ Rewritten(SubSeq(text, Len(head) + 1, Len(text)), HelperRecipe(path))
              /\ tree[path].permissions = {493}
    /\ rpc = "returned" =>
          /\ "debian/install.sh" \in DOMAIN tree
          /\ "debian/clean.sh" \in DOMAIN tree
          /\ BuildEmitted <=> "debian/build.sh" \in DOMAIN tree

C8_Witness ==
    /\ rpc = "returned"
    /\ rspec.build = BuildRoot \o <<"\n">> \o BuildRoot
    /\ tree["debian/build.sh"].contents =
          <<"#!/bin/sh\n", "unset CFLAGS\n">> \o DestDir \o <<"\n">> \o DestDir
    /\ tree["debian/clean.sh"].contents =
          <<"#!/bin/sh\n">> \o DestDir \o <<"\n">> \o DestDir
    /\ tree["debian/install.sh"].permissions = {493}

====
